---- MODULE Spec2Model ----
(***************************************************************************)
(* Weisfeiler-Leman colour refinement (crate wl_isomorphism): the          *)
(* GraphWrapper of src/src/graphwrapper.rs and the entry points of         *)
(* src/src/lib.rs, as a state machine.                                     *)
(*                                                                         *)
(* Two wrappers (1 and 2) are driven one after the other, the way the      *)
(* crate's tests drive them (wl1.run(); wl2.run(); then get_results() on   *)
(* each), so that the results of two calls can be compared in one state.   *)
(*                                                                         *)
(* Conventions                                                             *)
(*  - node indices are 0-based as in the source; a label buffer is a       *)
(*    sequence, so the label of node v is labels[v + 1];                   *)
(*  - usize is UsizeBits wide; arithmetic the source does on usize wraps    *)
(*    (release build) or aborts (debug build, overflow checks) when it     *)
(*    leaves 0..UsizeMax;                                                  *)
(*  - XxHash64::oneshot is an external, deterministic function that the    *)
(*    claims treat as collision-free.  It is modelled by the table `hashed` *)
(*    of the byte strings hashed so far: equal inputs get equal values,    *)
(*    different inputs different values, and the values are scattered so   *)
(*    that their numeric order is unrelated to the order of first use.     *)
(***************************************************************************)
EXTENDS Integers, Sequences, FiniteSets, TLC

\* ---------------------------------------------------------------- bounds
\* Exhaustively enumerated graphs have at most MaxNodes nodes and MaxEdges
\* edges (self-loops and parallel edges included).
MaxNodes == 2
MaxEdges == 2
\* Buffers handed to stabilised() directly have at most MaxLen entries, each
\* a label in 0..MaxLabel.
MaxLen == 3
MaxLabel == 2
\* usize has 2 * HalfBits bits (every Rust target has an even usize width).
HalfBits == 5

\* ------------------------------------------------------ program constants
\* The seed every entry point of lib.rs passes to the constructor.
Seed == 42

\* ------------------------------------------------------- usize arithmetic
UsizeBits == 2 * HalfBits
UsizeMax == 2^UsizeBits - 1
IsizeMax == 2^(UsizeBits - 1) - 1

\* The value a usize holds after an operation whose exact result is x.
wrapping(x) == x % (UsizeMax + 1)

\* Whether the exact result x of a usize operation does not fit.
overflows(x) == x < 0 \/ x > UsizeMax

\* usize::checked_pow: -1 stands for None.
checked_pow(base, exp) == IF base^exp > UsizeMax THEN -1 ELSE base^exp

\* Vec::<u64>::with_capacity(c) panics ("capacity overflow") when c elements
\* of 8 bytes exceed isize::MAX bytes.
capacity_overflow(c) == c * 8 > IsizeMax

\* ------------------------------------------------------------ sequences
\* The labels of the nodes in `nodes`, in that order.
Gather(lab, nodes) == [k \in 1..Len(nodes) |-> lab[nodes[k] + 1]]

\* Iterator::flatten on a list of [u64; 2].
Flatten(pairs) ==
    [k \in 1..(2 * Len(pairs)) |-> pairs[(k + 1) \div 2][IF k % 2 = 1 THEN 1 ELSE 2]]

Reverse(s) == [k \in 1..Len(s) |-> s[Len(s) + 1 - k]]

\* A bug that forgets to sort.
sort_unstable_skipped(s) == s

\* slice::sort_unstable on u64 labels: ascending.
sort_unstable(s) == SortSeq(s, LAMBDA a, b : a < b)

PairLess(p, q) == p[1] < q[1] \/ (p[1] = q[1] /\ p[2] < q[2])

\* slice::sort_unstable on [u64; 2]: lexicographic.
sort_unstable_pairs(s) == SortSeq(s, PairLess)

\* ---------------------------------------------------------- Graph Adapter
\* A petgraph Graph: n nodes 0..n-1, the edges in insertion order, each
\* <<source, target>>, and the edge type.  petgraph links every new edge at
\* the head of its endpoints' edge lists, so the neighbours of a node are
\* enumerated latest edge first.
RECURSIVE OutgoingList(_, _, _)
\* Targets of the edges k, k-1, .., 1 whose source is v.
OutgoingList(g, v, k) ==
    IF k = 0 THEN <<>>
    ELSE (IF g.edges[k][1] = v THEN <<g.edges[k][2]>> ELSE <<>>)
         \o OutgoingList(g, v, k - 1)

RECURSIVE IncomingList(_, _, _, _)
\* Sources of the edges k, k-1, .., 1 whose target is v; with skip_start the
\* self-loops of v are left out (the outgoing list has them already).
IncomingList(g, v, k, skip_start) ==
    IF k = 0 THEN <<>>
    ELSE (IF g.edges[k][2] = v /\ ~(skip_start /\ g.edges[k][1] = v)
          THEN <<g.edges[k][1]>> ELSE <<>>)
         \o IncomingList(g, v, k - 1, skip_start)

\* Graph::neighbors on an undirected graph: both edge lists.
neighbors(g, v) ==
    OutgoingList(g, v, Len(g.edges)) \o IncomingList(g, v, Len(g.edges), TRUE)

\* Graph::neighbors_directed on a directed graph: one edge list.
neighbors_directed(g, v, dir) ==
    IF dir = "Outgoing" THEN OutgoingList(g, v, Len(g.edges))
    ELSE IncomingList(g, v, Len(g.edges), FALSE)

\* Graph::edges_connecting(a, b).count() on an undirected graph.
edges_connecting(g, a, b) ==
    Cardinality({k \in 1..Len(g.edges) :
                    \/ g.edges[k] = <<a, b>>
                    \/ g.edges[k] = <<b, a>>})

\* A directedness test that takes every graph for undirected.
is_directed_never(g) == FALSE

is_directed(g) == g.directed

\* ---------------------------------------------------------- Hash Primitive
\* A hash with a single value.
HashValue_constant(slot) == 1000 + 1000

\* The value the Hash Primitive gives the byte string in slot `slot`: above
\* every degree or edge count, and injective on the slots 1..1008.
HashValue(slot) == 2000 + ((389 * slot) % 1009)

\* Position of `bytes` in the table, or the next free position.
HashSlot(tab, bytes) ==
    IF \E k \in 1..Len(tab) : tab[k] = bytes
    THEN CHOOSE k \in 1..Len(tab) : tab[k] = bytes
    ELSE Len(tab) + 1

\* XxHash64::oneshot(seed, cast_slice(data)): the hash and the table after
\* the call.
XxHash64_oneshot(tab, seed, data) ==
    LET bytes == <<seed>> \o data
        slot == HashSlot(tab, bytes)
    IN  [tab |-> IF slot > Len(tab) THEN Append(tab, bytes) ELSE tab,
         h |-> HashValue(slot)]

\* A sequence of XxHash64::oneshot calls, made in the order of `datas`, none
\* of which depends on the result of another: the hashes and the table after
\* the last call.
HashAll(tab, seed, datas) ==
    LET bytes == [k \in 1..Len(datas) |-> <<seed>> \o datas[k]]
        fresh == {k \in 1..Len(datas) :
                     /\ \A j \in 1..Len(tab) : tab[j] # bytes[k]
                     /\ \A j \in 1..(k - 1) : bytes[j] # bytes[k]}
        nth(r) == CHOOSE k \in fresh : Cardinality({j \in fresh : j <= k}) = r
        after == tab \o [r \in 1..Cardinality(fresh) |-> bytes[nth(r)]]
    IN  [tab |-> after,
         out |-> [k \in 1..Len(datas) |-> HashValue(HashSlot(after, bytes[k]))]]

\* ------------------------------------------------------------ GraphWrapper
\* What a constructor leaves when it panics with the message `why`: no
\* wrapper.  `allocated` tells whether the panic came after the label
\* buffers had been allocated.
Aborted(why, allocated) ==
    [err |-> why, labels |-> <<>>, new_labels |-> <<>>, niters |-> 0,
     subgraphs |-> <<>>, allocated |-> allocated]

\* A budget clamp that keeps a too large request.
clamp_niters_keeps_large(niters, size) ==
    IF niters = 0 THEN size - 1 ELSE niters

\* `if niters == 0 || niters > size { niters = size - 1 }`: the exact value of
\* the new budget (size is graph.node_count() or number_tuples).
clamp_niters(niters, size) ==
    IF niters = 0 \/ niters > size THEN size - 1 ELSE niters

\* GraphWrapper::new (1-WL).  overflow_checks is the build's setting.
new(g, niters, check_stable, sub, overflow_checks) ==
    LET node_count == g.n
        clamped == clamp_niters(niters, node_count)
    IN  IF capacity_overflow(node_count) THEN Aborted("capacity overflow", FALSE)
        ELSE IF overflows(clamped) /\ overflow_checks
        THEN Aborted("attempt to subtract with overflow", TRUE)
        ELSE IF sub /\ capacity_overflow(wrapping(clamped))
        THEN Aborted("capacity overflow", TRUE)
        ELSE [err |-> "none",
              labels |-> <<>>,
              new_labels |-> [k \in 1..node_count |-> 0],
              niters |-> wrapping(clamped),
              subgraphs |-> IF sub THEN [k \in 1..node_count |-> <<>>] ELSE <<>>,
              allocated |-> TRUE]

\* A size computation whose square is not checked.
number_tuples_unchecked(node_count, overflow_checks) ==
    LET a == wrapping(node_count - 1)
        d == wrapping(wrapping(wrapping(a * a) + node_count) - 1)
    IN  [err |-> "none", v |-> wrapping(d \div 2 + node_count)]

\* new_2wl's number_tuples:
\*   ((node_count - 1).checked_pow(2).expect(..) + node_count - 1) / 2 + node_count
number_tuples(node_count, overflow_checks) ==
    LET a == node_count - 1
        p == checked_pow(wrapping(a), 2)
        c == p + node_count
        d == wrapping(c) - 1
        f == wrapping(d) \div 2 + node_count
    IN  IF overflows(a) /\ overflow_checks
        THEN [err |-> "attempt to subtract with overflow", v |-> 0]
        ELSE IF p = -1
        THEN [err |-> "This grapsize exceeds support for 2-dimensional WL", v |-> 0]
        ELSE IF overflow_checks /\ (overflows(c) \/ overflows(f))
        THEN [err |-> "attempt to add with overflow", v |-> 0]
        ELSE IF overflow_checks /\ overflows(d)
        THEN [err |-> "attempt to subtract with overflow", v |-> 0]
        ELSE [err |-> "none", v |-> wrapping(f)]

\* GraphWrapper::new_2wl (2-WL).
new_2wl(g, niters, check_stable, sub, overflow_checks) ==
    IF sub
    THEN Aborted("Subgraph hashing is not supported for 2-dimensional WL", FALSE)
    ELSE IF is_directed(g)
    THEN Aborted("Directed graphs are not yet supported for 2-dimensional WL", FALSE)
    ELSE LET nt == number_tuples(g.n, overflow_checks)
             clamped == clamp_niters(niters, nt.v)
         IN  IF nt.err # "none" THEN Aborted(nt.err, FALSE)
             ELSE IF capacity_overflow(nt.v) THEN Aborted("capacity overflow", FALSE)
             ELSE IF overflows(clamped) /\ overflow_checks
             THEN Aborted("attempt to subtract with overflow", TRUE)
             ELSE [err |-> "none",
                   labels |-> <<>>,
                   new_labels |-> [k \in 1..nt.v |-> 0],
                   niters |-> wrapping(clamped),
                   subgraphs |-> <<>>,
                   allocated |-> TRUE]

\* An index computed without ordering the pair.
get_label_index_unordered(left, right) ==
    wrapping(wrapping(wrapping(left * left) + left) \div 2 + right)

\* get_label_index(left, right) in usize arithmetic.
get_label_index(left, right) ==
    LET l == IF right > left THEN right ELSE left
        r == IF right > left THEN left ELSE right
    IN  wrapping(wrapping(wrapping(l * l) + l) \div 2 + r)

\* The (left, right) of the pos-th iteration (pos = 0, 1, ..) of the loops
\* `for left in 0..node_count { for right in 0..=left { .. } }`.
PairAt(pos) ==
    LET left == CHOOSE l \in 0..pos :
                    (l * (l + 1)) \div 2 <= pos /\ pos < ((l + 1) * (l + 2)) \div 2
    IN  <<left, pos - (left * (left + 1)) \div 2>>

\* Number of iterations of those loops.
PairCount(node_count) == (node_count * (node_count + 1)) \div 2

\* A round that hashes the neighbourhood without the own label.
NodeHashInput_drops_own(summary, own) == summary

\* `input_hashes.push(self.labels[node.index()])`: the own label goes last.
NodeHashInput(summary, own) == summary \o <<own>>

\* GraphWrapper<_,_,_,OneWL>::initial_graph: the labels pushed (directed
\* graphs: the hash of [out, ing]).
initial_graph(g, tab) ==
    IF ~is_directed(g)
    THEN [tab |-> tab, labels |-> [k \in 1..g.n |-> Len(neighbors(g, k - 1))]]
    ELSE LET r == HashAll(tab, Seed,
                      [k \in 1..g.n |->
                          <<Len(neighbors_directed(g, k - 1, "Outgoing")),
                            Len(neighbors_directed(g, k - 1, "Incoming"))>>])
         IN  [tab |-> r.tab, labels |-> r.out]

\* An initial labelling whose inner loop runs from left down to 0.
initial_graph_2wl_descending(g) ==
    [pos \in 1..PairCount(g.n) |->
        edges_connecting(g, PairAt(pos - 1)[1],
                         PairAt(pos - 1)[1] - PairAt(pos - 1)[2])]

\* GraphWrapper<_,_,_,TwoWL>::initial_graph: the labels pushed, left
\* ascending and right in 0..=left.
initial_graph_2wl(g) ==
    [pos \in 1..PairCount(g.n) |->
        edges_connecting(g, PairAt(pos - 1)[1], PairAt(pos - 1)[2])]

\* calculate_new_labels (1-WL, undirected branch): what is hashed for node v.
UndirectedInput(g, lab, v) ==
    NodeHashInput(sort_unstable(Gather(lab, neighbors(g, v))), lab[v + 1])

\* calculate_new_labels (1-WL, directed branch): the two lists hashed first
\* for node v, the incoming one as enumerated, the outgoing one sorted.
IncomingInput(g, lab, v) == Gather(lab, neighbors_directed(g, v, "Incoming"))

OutgoingInput(g, lab, v) ==
    sort_unstable(Gather(lab, neighbors_directed(g, v, "Outgoing")))

\* A round that leaves the nodes without neighbours alone.
calculate_new_labels_skips_isolated(g, lab, tab, nl) ==
    LET r == HashAll(tab, Seed,
                 [k \in 1..g.n |->
                     NodeHashInput(sort_unstable(Gather(lab, neighbors(g, k - 1))),
                                   lab[k])])
    IN  [tab |-> r.tab,
         new_labels |-> [k \in 1..Len(nl) |->
                            IF k <= g.n /\ neighbors(g, k - 1) # <<>>
                            THEN r.out[k] ELSE nl[k]]]

\* GraphWrapper<_,_,_,OneWL>::calculate_new_labels:
\* `self.new_labels[node.index()] = hash` for every node.  (The table takes
\* the directed branch's list hashes of all nodes before the node hashes.)
calculate_new_labels(g, lab, tab, nl) ==
    IF ~is_directed(g)
    THEN LET r == HashAll(tab, Seed, [k \in 1..g.n |-> UndirectedInput(g, lab, k - 1)])
         IN  [tab |-> r.tab,
              new_labels |-> [k \in 1..Len(nl) |-> IF k <= g.n THEN r.out[k] ELSE nl[k]]]
    ELSE LET lists == HashAll(tab, Seed,
                          [k \in 1..(2 * g.n) |->
                              IF k % 2 = 1
                              THEN IncomingInput(g, lab, (k - 1) \div 2)
                              ELSE OutgoingInput(g, lab, (k - 1) \div 2)])
             r == HashAll(lists.tab, Seed,
                      [k \in 1..g.n |->
                          NodeHashInput(<<lists.out[2 * k - 1], lists.out[2 * k]>>,
                                        lab[k])])
         IN  [tab |-> r.tab,
              new_labels |-> [k \in 1..Len(nl) |-> IF k <= g.n THEN r.out[k] ELSE nl[k]]]

\* A round that does not look at the legs through `alternative`.
TriplePair_blind(lab, left, right, alternative) == <<0, 0>>

\* The [min, max] pair of the two legs through `alternative`.
TriplePair(lab, left, right, alternative) ==
    LET left_replace == lab[get_label_index(alternative, right) + 1]
        right_replace == lab[get_label_index(left, alternative) + 1]
    IN  IF left_replace < right_replace
        THEN <<left_replace, right_replace>>
        ELSE <<right_replace, left_replace>>

\* calculate_new_labels (2-WL): what is hashed for the pair (left, right).
PairInput(g, lab, left, right) ==
    LET input_hashes == [alt \in 1..g.n |-> TriplePair(lab, left, right, alt - 1)]
    IN  NodeHashInput(Flatten(sort_unstable_pairs(input_hashes)),
                      lab[get_label_index(left, right) + 1])

\* GraphWrapper<_,_,_,TwoWL>::calculate_new_labels:
\* `self.new_labels[current_index] = hash` for every pair, the last write to
\* an index being the one that stays.
calculate_new_labels_2wl(g, lab, tab, nl) ==
    LET r == HashAll(tab, Seed,
                 [pos \in 1..PairCount(g.n) |->
                     PairInput(g, lab, PairAt(pos - 1)[1], PairAt(pos - 1)[2])])
        Writes(k) == {pos \in 1..PairCount(g.n) :
                         get_label_index(PairAt(pos - 1)[1], PairAt(pos - 1)[2]) + 1 = k}
        Last(S) == CHOOSE x \in S : \A y \in S : y <= x
    IN  [tab |-> r.tab,
         new_labels |-> [k \in 1..Len(nl) |->
                            IF Writes(k) = {} THEN nl[k] ELSE r.out[Last(Writes(k))]]]

\* stabilised(): the label_mapping the loop has built when it reaches index
\* idx: every old label seen before idx, mapped to the new label of the
\* first index that holds it.
LabelMapping(old, new_, idx) ==
    [x \in {old[j] : j \in 1..(idx - 1)} |->
        new_[CHOOSE j \in 1..(idx - 1) :
                 old[j] = x /\ \A i \in 1..(j - 1) : old[i] # x]]

\* What a call get_label_index(left, right) does in a build with or without
\* overflow checks: the panic of the first operation that overflows, or the
\* value.
get_label_index_call(left, right, overflow_checks) ==
    LET l == IF right > left THEN right ELSE left
        r == IF right > left THEN left ELSE right
        half == wrapping(wrapping(l * l) + l) \div 2
    IN  IF overflow_checks /\ overflows(l * l)
        THEN [err |-> "attempt to multiply with overflow", v |-> 0]
        ELSE IF overflow_checks /\ (overflows(wrapping(l * l) + l) \/ overflows(half + r))
        THEN [err |-> "attempt to add with overflow", v |-> 0]
        ELSE [err |-> "none", v |-> get_label_index(left, right)]

\* A detector that never reports a stable colouring.
stabilised_never(old, new_) == FALSE

\* A detector that always reports a stable colouring.
stabilised_always(old, new_) == TRUE

\* GraphWrapper::stabilised: false at the first index whose old label is in
\* the mapping with another new label, true when the loop ends.
stabilised(old, new_) ==
    \A idx \in 1..Len(old) :
        LET label_mapping == LabelMapping(old, new_, idx)
        IN  old[idx] \in DOMAIN label_mapping => new_[idx] = label_mapping[old[idx]]

\* An inclusive loop bound.
while_condition_inclusive(stable, count, budget) == stable \/ count <= budget

\* run(): `while self.check_stable || its < self.niters`
while_condition(stable, count, budget) == stable \/ count < budget

\* A history recorder that drops the entry.
PushHistory_dropped(subs, new_) == subs

\* update_graph's history push: one entry per index.
PushHistory(subs, new_) == [k \in 1..Len(subs) |-> Append(subs[k], new_[k])]

\* GraphWrapper::get_results: the sorted buffer and its hash.
get_results(lab, tab) ==
    LET sorted == sort_unstable(lab)
        r == XxHash64_oneshot(tab, Seed, sorted)
    IN  [tab |-> r.tab, labels |-> sorted, result |-> r.h]

\* ------------------------------------------------------------------ state
VARIABLES
    scen,           \* which pair of calls this behaviour makes (fixed by Init)
    call,           \* call[i]: the arguments of the i-th call
    graph,          \* GraphWrapper.graph
    dim,            \* the WL dimension marker Wd: 1 (OneWL) or 2 (TwoWL)
    labels,         \* GraphWrapper.labels
    new_labels,     \* GraphWrapper.new_labels
    niters,         \* GraphWrapper.niters
    check_stable,   \* GraphWrapper.check_stable
    get_subgraphs,  \* GraphWrapper.get_subgraphs
    subgraphs,      \* GraphWrapper.subgraphs (<<>> stands for None)
    its,            \* run()'s local `its`
    pc,             \* where the i-th call stands
    err,            \* the panic message of an aborted call, or "none"
    allocated,      \* whether the constructor got to allocate the label buffers
    rounds,         \* number of update_graph() executions so far
    result,         \* what get_results() returned (0 before)
    hashed,         \* the Hash Primitive's table
    probe           \* a direct call of a private function: arguments, outcome

vars == <<scen, call, graph, dim, labels, new_labels, niters, check_stable,
          get_subgraphs, subgraphs, its, pc, err, allocated, rounds, result,
          hashed, probe>>

Wrappers == {1, 2}

\* ------------------------------------------------------------ entry points
\* lib.rs: each entry point is a constructor call, run(), and a return.
Call(ep, g, d, n_iters, stable, sub) ==
    [ep |-> ep, graph |-> g, dim |-> d, niters |-> n_iters,
     check_stable |-> stable, sub |-> sub]

invariant(g) == Call("invariant", g, 1, 0, TRUE, FALSE)
invariant_2wl(g) == Call("invariant_2wl", g, 2, 0, TRUE, FALSE)
invariant_iters(g, n_iters) == Call("invariant_iters", g, 1, n_iters, FALSE, FALSE)
iter_2wl(g, n_iters) == Call("iter_2wl", g, 2, n_iters, FALSE, FALSE)
neighbourhood_hash(g, n_iters) ==
    Call("neighbourhood_hash", g, 1, n_iters, FALSE, TRUE)
neighbourhood_stable(g) == Call("neighbourhood_stable", g, 1, 0, TRUE, TRUE)

\* ------------------------------------------------------------------ graphs
Graph(n, edges, directed) == [n |-> n, edges |-> edges, directed |-> directed]

\* Edge lists of at most MaxEdges edges over `pairs`, one per multiset (the
\* list is in lexicographic order).
EdgeLists(pairs) ==
    UNION {{s \in [1..m -> pairs] :
               \A k \in 1..(m - 1) : s[k] = s[k + 1] \/ PairLess(s[k], s[k + 1])} :
           m \in 0..MaxEdges}

\* Every undirected graph (self-loops, parallel edges, isolated nodes) within
\* the bounds, each edge written <<a, b>> with a <= b.
SmallUnGraphs ==
    UNION {{Graph(n, e, FALSE) :
               e \in EdgeLists({<<a, b>> \in (0..(n - 1)) \X (0..(n - 1)) : a <= b})} :
           n \in 0..MaxNodes}

\* Every directed graph within the bounds.
SmallDiGraphs ==
    UNION {{Graph(n, e, TRUE) : e \in EdgeLists((0..(n - 1)) \X (0..(n - 1)))} :
           n \in 0..MaxNodes}

\* The graphs of the crate's tests.
Path5 == Graph(5, <<<<0, 1>>, <<1, 2>>, <<2, 3>>, <<3, 4>>>>, FALSE)
Star4 == Graph(4, <<<<0, 1>>, <<0, 2>>, <<0, 3>>>>, FALSE)
DiPath5 == Graph(5, <<<<0, 1>>, <<1, 2>>, <<2, 3>>, <<3, 4>>>>, TRUE)
\* Further graphs: a path with a detached self-loop, and a directed graph
\* whose node 2 has two incoming neighbours of different colour.
LoopTail == Graph(4, <<<<0, 1>>, <<1, 2>>, <<3, 3>>>>, FALSE)
DiFork == Graph(4, <<<<3, 1>>, <<0, 2>>, <<1, 2>>>>, TRUE)

\* tests/2wl.rs extra_expressive: two triangles and the 6-cycle.
TwoTriangles ==
    Graph(6, <<<<0, 1>>, <<1, 2>>, <<2, 0>>, <<3, 4>>, <<4, 5>>, <<5, 3>>>>, FALSE)
Cycle6 ==
    Graph(6, <<<<0, 1>>, <<1, 2>>, <<2, 3>>, <<3, 4>>, <<4, 5>>, <<5, 0>>>>, FALSE)
\* simple_dir, simple_fail, flipped_dir and flipped_middle of graphwrapper.rs.
UnEdge == Graph(2, <<<<0, 1>>>>, FALSE)
UnEdgeFlipped == Graph(2, <<<<1, 0>>>>, FALSE)
Path3 == Graph(3, <<<<0, 1>>, <<1, 2>>>>, FALSE)
DiEdge == Graph(2, <<<<0, 1>>>>, TRUE)
DiPath5Shuffled == Graph(5, <<<<0, 1>>, <<1, 2>>, <<3, 4>>, <<2, 3>>>>, TRUE)
DiPath5Reversed == Graph(5, <<<<1, 0>>, <<2, 1>>, <<3, 2>>, <<4, 3>>>>, TRUE)
DiPath5FlippedMiddle == Graph(5, <<<<1, 0>>, <<2, 1>>, <<2, 3>>, <<4, 3>>>>, TRUE)

UnGraphs == SmallUnGraphs \cup {Path5, Star4, LoopTail}
DiGraphs == SmallDiGraphs \cup {DiPath5, DiFork}

\* Relabelings of n nodes: every bijection for the enumerated sizes, four of
\* them (identity, a transposition, a rotation, the reversal) above.
NodePerms(n) ==
    IF n <= MaxNodes
    THEN {p \in [0..(n - 1) -> 0..(n - 1)] :
             \A a, b \in 0..(n - 1) : p[a] = p[b] => a = b}
    ELSE {[v \in 0..(n - 1) |-> v],
          [v \in 0..(n - 1) |-> IF v = 0 THEN 1 ELSE IF v = 1 THEN 0 ELSE v],
          [v \in 0..(n - 1) |-> (v + 1) % n],
          [v \in 0..(n - 1) |-> n - 1 - v]}

\* The graph p(g), built by inserting g's edges relabelled: in the same
\* order, in the opposite order, or (undirected graphs) in the opposite
\* order with the endpoints of every edge exchanged.
Relabel(g, p, how) ==
    LET image == [k \in 1..Len(g.edges) |->
                     IF how = "flipped"
                     THEN <<p[g.edges[k][2]], p[g.edges[k][1]]>>
                     ELSE <<p[g.edges[k][1]], p[g.edges[k][2]]>>]
    IN  Graph(g.n, IF how = "same" THEN image ELSE Reverse(image), g.directed)

\* The index-space size of a run on g.
IndexSpace(g, d) == IF d = 1 THEN g.n ELSE (g.n * (g.n + 1)) \div 2

\* -------------------------------------------------------------------- Init
NoGraph == Graph(0, <<>>, FALSE)

\* No private function is called directly.
NoProbe == [fn |-> "none"]

\* The state before the first constructor call, for the two calls c1 and c2.
Start(name, c1, c2) ==
    /\ scen = name
    /\ call = <<c1, c2>>
    /\ graph = [i \in Wrappers |-> NoGraph]
    /\ dim = [i \in Wrappers |-> 0]
    /\ labels = [i \in Wrappers |-> <<>>]
    /\ new_labels = [i \in Wrappers |-> <<>>]
    /\ niters = [i \in Wrappers |-> 0]
    /\ check_stable = [i \in Wrappers |-> FALSE]
    /\ get_subgraphs = [i \in Wrappers |-> FALSE]
    /\ subgraphs = [i \in Wrappers |-> <<>>]
    /\ its = [i \in Wrappers |-> 0]
    /\ pc = [i \in Wrappers |-> "call"]
    /\ err = [i \in Wrappers |-> "none"]
    /\ allocated = [i \in Wrappers |-> FALSE]
    /\ rounds = [i \in Wrappers |-> 0]
    /\ result = [i \in Wrappers |-> 0]
    /\ hashed = <<>>
    /\ probe = NoProbe

\* The entry point `ep` of lib.rs on g with the budget k (where it takes one).
EntryPoint(ep, g, k) ==
    CASE ep = "invariant" -> invariant(g)
      [] ep = "invariant_2wl" -> invariant_2wl(g)
      [] ep = "invariant_iters" -> invariant_iters(g, k)
      [] ep = "iter_2wl" -> iter_2wl(g, k)
      [] ep = "neighbourhood_hash" -> neighbourhood_hash(g, k)
      [] ep = "neighbourhood_stable" -> neighbourhood_stable(g)

AutoEntryPoints == {"invariant", "invariant_2wl", "neighbourhood_stable"}
FixedEntryPoints == {"invariant_iters", "iter_2wl", "neighbourhood_hash"}
TwoWLEntryPoints == {"invariant_2wl", "iter_2wl"}

\* The fixed-count entry point that pairs with an entry point.
FixedOf(ep) ==
    CASE ep \in {"invariant", "invariant_iters"} -> "invariant_iters"
      [] ep \in {"invariant_2wl", "iter_2wl"} -> "iter_2wl"
      [] OTHER -> "neighbourhood_hash"

EpDim(ep) == IF ep \in TwoWLEntryPoints THEN 2 ELSE 1

\* Scenario "iso": the same entry point on a graph g and on a relabelled copy
\* of g whose edges were inserted in another order.
InitIso ==
    \E g \in UnGraphs \cup DiGraphs :
      \E p \in NodePerms(g.n) :
        \E how \in (IF g.directed THEN {"same", "reversed"} ELSE {"same", "flipped"}) :
          \E ep \in (IF g.directed
                     THEN {"invariant", "invariant_iters", "neighbourhood_stable"}
                     ELSE AutoEntryPoints \cup FixedEntryPoints) :
            \E k \in (IF ep \in AutoEntryPoints THEN {0}
                      ELSE IF ep = "iter_2wl" THEN {2, 3}
                      ELSE 0..g.n) :
              Start("iso", EntryPoint(ep, g, k), EntryPoint(ep, Relabel(g, p, how), k))

\* Scenario "iters": two runs on the same graph, the first auto-stop or with
\* the budget 0, the second with any budget.
InitIters ==
    \E g \in UnGraphs \cup DiGraphs :
      \E ep \in (IF g.directed
                 THEN {"invariant", "invariant_iters"}
                 ELSE AutoEntryPoints \cup FixedEntryPoints) :
        \E k \in 0..(IndexSpace(g, EpDim(ep)) + 1) \cup {UsizeMax} :
          Start("iters", EntryPoint(ep, g, 0), EntryPoint(FixedOf(ep), g, k))

\* Scenario "ctor": the constructors called directly with any arguments
\* (the crate's unit tests do), then iter_2wl on the same graph.
InitCtor ==
    \E g \in SmallUnGraphs \cup SmallDiGraphs \cup {LoopTail, DiFork} :
      \E d \in {1, 2}, k \in {0, 2}, stable \in BOOLEAN, sub \in BOOLEAN :
        Start("ctor",
              Call(IF d = 1 THEN "new" ELSE "new_2wl", g, d, k, stable, sub),
              iter_2wl(g, k))

\* Scenario "size": graphs of every node count a usize can hold (no edges).
InitSize ==
    \E n \in 0..UsizeMax :
      Start("size", invariant_2wl(Graph(n, <<>>, FALSE)),
            neighbourhood_hash(Graph(n, <<>>, FALSE), 2))

\* The state in which no entry point is called and the private function of
\* the probe p is about to be called.
StartProbe(name, p) ==
    /\ scen = name
    /\ call = <<invariant(NoGraph), invariant(NoGraph)>>
    /\ graph = [i \in Wrappers |-> NoGraph]
    /\ dim = [i \in Wrappers |-> 0]
    /\ labels = [i \in Wrappers |-> <<>>]
    /\ new_labels = [i \in Wrappers |-> <<>>]
    /\ niters = [i \in Wrappers |-> 0]
    /\ check_stable = [i \in Wrappers |-> FALSE]
    /\ get_subgraphs = [i \in Wrappers |-> FALSE]
    /\ subgraphs = [i \in Wrappers |-> <<>>]
    /\ its = [i \in Wrappers |-> 0]
    /\ pc = [i \in Wrappers |-> "idle"]
    /\ err = [i \in Wrappers |-> "none"]
    /\ allocated = [i \in Wrappers |-> FALSE]
    /\ rounds = [i \in Wrappers |-> 0]
    /\ result = [i \in Wrappers |-> 0]
    /\ hashed = <<>>
    /\ probe = p

\* The largest index whose square still fits a usize, and the indices the
\* "index" scenario draws from: up to two past it.
SqrtMax == 2^HalfBits - 1
Indices == 0..(SqrtMax + 2)

\* Scenario "index": get_label_index called with any two indices.
InitIndex ==
    \E left, right \in Indices :
        StartProbe("index", [fn |-> "get_label_index", left |-> left, right |-> right,
                             called |-> FALSE, err |-> "none", v |-> 0])

\* Scenario "detector": stabilised() called on any two buffers of one length.
InitDetector ==
    \E len \in 0..MaxLen :
      \E old, new_ \in [1..len -> 0..MaxLabel] :
        StartProbe("detector", [fn |-> "stabilised", old |-> old, new_ |-> new_,
                                called |-> FALSE, v |-> FALSE])

\* Scenario "pairs": the pairs of calls the crate's tests compare.
PairCases ==
    {<<invariant(TwoTriangles), invariant(Cycle6)>>,
     <<invariant_2wl(TwoTriangles), invariant_2wl(Cycle6)>>,
     <<invariant(UnEdge), invariant(DiEdge)>>,
     <<invariant(DiPath5), invariant(DiPath5Reversed)>>,
     <<invariant(DiPath5Shuffled), invariant(DiPath5Reversed)>>,
     <<invariant(DiPath5), invariant(DiPath5FlippedMiddle)>>,
     <<invariant_2wl(UnEdge), invariant_2wl(UnEdgeFlipped)>>,
     <<invariant_2wl(Path3), invariant(UnEdgeFlipped)>>,
     <<invariant_iters(Star4, 2), invariant_iters(Star4, 3)>>,
     <<iter_2wl(Star4, 2), iter_2wl(Star4, 3)>>,
     <<neighbourhood_stable(Path5), neighbourhood_hash(Path5, 2)>>}

InitPairs == \E c \in PairCases : Start("pairs", c[1], c[2])

\* Scenario "budgets": two fixed-count runs on the same graph with two
\* different budgets within the index space.
InitBudgets ==
    \E g \in UnGraphs \cup DiGraphs :
      \E ep \in (IF g.directed
                 THEN {"invariant_iters", "neighbourhood_hash"}
                 ELSE FixedEntryPoints) :
        \E k1, k2 \in 1..IndexSpace(g, EpDim(ep)) :
          /\ k1 < k2
          /\ Start("budgets", EntryPoint(ep, g, k1), EntryPoint(ep, g, k2))

Init ==
    \/ InitIso \/ InitIters \/ InitCtor \/ InitSize \/ InitPairs \/ InitBudgets
    \/ InitIndex \/ InitDetector

\* ----------------------------------------------------------------- actions
\* The calls are made one after the other: the second wrapper is built once
\* the first one's run() has returned (or its constructor panicked).
RunTurn(i) == i = 1 \/ pc[1] \in {"returned", "abort"}

\* get_results() is called on the first wrapper, then on the second, after
\* both runs.
ReturnTurn(i) ==
    /\ pc[i] = "returned"
    /\ i = 1 => pc[2] \in {"returned", "abort", "done"}
    /\ i = 2 => pc[1] \in {"done", "abort"}

\* GraphWrapper::new / GraphWrapper::new_2wl.  An arithmetic overflow panics
\* in a build with overflow checks and wraps in one without.
New(i) ==
    /\ pc[i] = "call"
    /\ RunTurn(i)
    /\ \E overflow_checks \in BOOLEAN :
         LET c == call[i]
             w == IF c.dim = 1
                  THEN new(c.graph, c.niters, c.check_stable, c.sub, overflow_checks)
                  ELSE new_2wl(c.graph, c.niters, c.check_stable, c.sub,
                               overflow_checks)
             ok == w.err = "none"
         IN  /\ err' = [err EXCEPT ![i] = w.err]
             /\ allocated' = [allocated EXCEPT ![i] = w.allocated]
             /\ pc' = [pc EXCEPT ![i] = IF ok THEN "constructed" ELSE "abort"]
             /\ graph' = [graph EXCEPT ![i] = IF ok THEN c.graph ELSE @]
             /\ dim' = [dim EXCEPT ![i] = IF ok THEN c.dim ELSE @]
             /\ labels' = [labels EXCEPT ![i] = w.labels]
             /\ new_labels' = [new_labels EXCEPT ![i] = w.new_labels]
             /\ niters' = [niters EXCEPT ![i] = w.niters]
             /\ check_stable' =
                    [check_stable EXCEPT ![i] = ok /\ c.check_stable]
             /\ get_subgraphs' = [get_subgraphs EXCEPT ![i] = ok /\ c.sub]
             /\ subgraphs' = [subgraphs EXCEPT ![i] = w.subgraphs]
    /\ UNCHANGED <<probe, scen, call, its, rounds, result, hashed>>

\* run(): `self.initial_graph(); let mut its = 1;`
InitialGraph(i) ==
    /\ pc[i] = "constructed"
    /\ LET r == IF dim[i] = 1 THEN initial_graph(graph[i], hashed)
                ELSE [tab |-> hashed, labels |-> initial_graph_2wl(graph[i])]
       IN  /\ labels' = [labels EXCEPT ![i] = r.labels]
           /\ hashed' = r.tab
           /\ subgraphs' = [subgraphs EXCEPT ![i] =
                               IF get_subgraphs[i] THEN PushHistory(@, r.labels) ELSE @]
    /\ its' = [its EXCEPT ![i] = 1]
    /\ pc' = [pc EXCEPT ![i] = "while"]
    /\ UNCHANGED <<probe, scen, call, graph, dim, new_labels, niters, check_stable,
                   get_subgraphs, err, allocated, rounds, result>>

\* run(): `while self.check_stable || its < self.niters`
While(i) ==
    /\ pc[i] = "while"
    /\ pc' = [pc EXCEPT ![i] =
                 IF while_condition(check_stable[i], its[i], niters[i])
                 THEN "body" ELSE "returned"]
    /\ UNCHANGED <<probe, scen, call, graph, dim, labels, new_labels, niters, check_stable,
                   get_subgraphs, subgraphs, its, err, allocated, rounds, result, hashed>>

\* run(): `self.calculate_new_labels(); its += 1;`
CalculateNewLabels(i) ==
    /\ pc[i] = "body"
    /\ LET r == IF dim[i] = 1
                THEN calculate_new_labels(graph[i], labels[i], hashed, new_labels[i])
                ELSE calculate_new_labels_2wl(graph[i], labels[i], hashed,
                                              new_labels[i])
       IN  /\ new_labels' = [new_labels EXCEPT ![i] = r.new_labels]
           /\ hashed' = r.tab
    /\ its' = [its EXCEPT ![i] = wrapping(@ + 1)]
    /\ pc' = [pc EXCEPT ![i] = "check"]
    /\ UNCHANGED <<probe, scen, call, graph, dim, labels, niters, check_stable,
                   get_subgraphs, subgraphs, err, allocated, rounds, result>>

\* A loop that applies the stabilising round before it breaks.
Stabilised_applies_round(i) ==
    /\ pc[i] = "check"
    /\ IF check_stable[i] /\ stabilised(labels[i], new_labels[i])
       THEN /\ subgraphs' = [subgraphs EXCEPT ![i] =
                    IF get_subgraphs[i] THEN PushHistory(@, new_labels[i]) ELSE @]
            /\ labels' = [labels EXCEPT ![i] = new_labels[i]]
            /\ new_labels' = [new_labels EXCEPT ![i] = labels[i]]
            /\ rounds' = [rounds EXCEPT ![i] = @ + 1]
            /\ pc' = [pc EXCEPT ![i] = "returned"]
       ELSE /\ pc' = [pc EXCEPT ![i] = "update"]
            /\ UNCHANGED <<labels, new_labels, subgraphs, rounds>>
    /\ UNCHANGED <<probe, scen, call, graph, dim, niters, check_stable, get_subgraphs,
                   its, err, allocated, result, hashed>>

\* run(): `if self.check_stable && self.stabilised() { break; }`
Stabilised(i) ==
    /\ pc[i] = "check"
    /\ pc' = [pc EXCEPT ![i] =
                 IF check_stable[i] /\ stabilised(labels[i], new_labels[i])
                 THEN "returned" ELSE "update"]
    /\ UNCHANGED <<probe, scen, call, graph, dim, labels, new_labels, niters, check_stable,
                   get_subgraphs, subgraphs, its, err, allocated, rounds, result, hashed>>

\* run(): `self.update_graph();`
UpdateGraph(i) ==
    /\ pc[i] = "update"
    /\ subgraphs' = [subgraphs EXCEPT ![i] =
                        IF get_subgraphs[i] THEN PushHistory(@, new_labels[i]) ELSE @]
    /\ labels' = [labels EXCEPT ![i] = new_labels[i]]
    /\ new_labels' = [new_labels EXCEPT ![i] = labels[i]]
    /\ rounds' = [rounds EXCEPT ![i] = @ + 1]
    /\ pc' = [pc EXCEPT ![i] = "while"]
    /\ UNCHANGED <<probe, scen, call, graph, dim, niters, check_stable, get_subgraphs,
                   its, err, allocated, result, hashed>>

\* `wrap.get_results()`: the entry points that return the invariant.
GetResults(i) ==
    /\ ReturnTurn(i)
    /\ ~get_subgraphs[i]
    /\ LET r == get_results(labels[i], hashed)
       IN  /\ labels' = [labels EXCEPT ![i] = r.labels]
           /\ result' = [result EXCEPT ![i] = r.result]
           /\ hashed' = r.tab
    /\ pc' = [pc EXCEPT ![i] = "done"]
    /\ UNCHANGED <<probe, scen, call, graph, dim, new_labels, niters, check_stable,
                   get_subgraphs, subgraphs, its, err, allocated, rounds>>

\* `wrap.subgraphs.unwrap()`: neighbourhood_hash and neighbourhood_stable
\* return the history.
Unwrap(i) ==
    /\ ReturnTurn(i)
    /\ get_subgraphs[i]
    /\ pc' = [pc EXCEPT ![i] = "done"]
    /\ UNCHANGED <<probe, scen, call, graph, dim, labels, new_labels, niters, check_stable,
                   get_subgraphs, subgraphs, its, err, allocated, rounds, result, hashed>>

\* A direct call of get_label_index.
GetLabelIndexCall ==
    /\ probe.fn = "get_label_index"
    /\ ~probe.called
    /\ \E overflow_checks \in BOOLEAN :
         LET r == get_label_index_call(probe.left, probe.right, overflow_checks)
         IN  probe' = [probe EXCEPT !.called = TRUE, !.err = r.err, !.v = r.v]
    /\ UNCHANGED <<scen, call, graph, dim, labels, new_labels, niters, check_stable,
                   get_subgraphs, subgraphs, its, pc, err, allocated, rounds, result,
                   hashed>>

\* A direct call of stabilised() on the buffers of the probe.
StabilisedCall ==
    /\ probe.fn = "stabilised"
    /\ ~probe.called
    /\ probe' = [probe EXCEPT !.called = TRUE,
                              !.v = stabilised(probe.old, probe.new_)]
    /\ UNCHANGED <<scen, call, graph, dim, labels, new_labels, niters, check_stable,
                   get_subgraphs, subgraphs, its, pc, err, allocated, rounds, result,
                   hashed>>

Next ==
    \E i \in Wrappers :
        \/ New(i)
        \/ InitialGraph(i)
        \/ While(i)
        \/ CalculateNewLabels(i)
        \/ Stabilised(i)
        \/ UpdateGraph(i)
        \/ GetResults(i)
        \/ Unwrap(i)

Spec == Init /\ [][Next]_vars
SpecIso == InitIso /\ [][Next]_vars
SpecIters == InitIters /\ [][Next]_vars
\* Both calls have returned or panicked (or none is made): no step is left.
Quiescent == \A i \in Wrappers : pc[i] \in {"done", "abort", "idle"}

\* The "iters" scenario on the graphs with at least one node.  The entry
\* points are sequential code: while a call has a next step, it is taken.
\* That is WF_vars(Next), written with ~Quiescent for ENABLED <<Next>>_vars.
InitItersLive == InitIters /\ call[1].graph.n >= 1
SpecItersLive ==
    InitItersLive /\ [][Next]_vars /\ ([]<>Quiescent \/ []<><<Next>>_vars)
SpecCtor == InitCtor /\ [][Next]_vars
SpecSize == InitSize /\ [][Next]_vars
SpecPairs == InitPairs /\ [][Next]_vars
SpecBudgets == InitBudgets /\ [][Next]_vars

\* The runs and the direct calls of the private functions.
NextProbes == Next \/ GetLabelIndexCall \/ StabilisedCall
InitProbes == InitIndex \/ InitDetector \/ InitPairs
SpecProbes == InitProbes /\ [][NextProbes]_vars

\* The hash table never outgrows the range on which the hash is injective.
TableFits == Len(hashed) < 1009

\* ------------------------------------------------------------------ claims
\* C1: for an undirected graph, the invariant that invariant,
\* invariant_iters, invariant_2wl and iter_2wl return, the multiset of final
\* labels and the number of rounds applied are the same for the graph and
\* for a relabelled copy of it whose edges were inserted in another order.
C1_PermutationInvariant ==
    (scen = "iso" /\ ~call[1].graph.directed) =>
        /\ (pc[1] = "done" /\ pc[2] = "done" /\ ~call[1].sub)
              => result[1] = result[2]
        /\ (pc[1] = "returned" /\ pc[2] = "returned")
              => /\ rounds[1] = rounds[2]
                 /\ sort_unstable(labels[1]) = sort_unstable(labels[2])

\* Both invariants of the path 0-1-2-3-4 and of a copy whose nodes are
\* numbered differently have been returned, after at least one round, and
\* the two label buffers were filled in different orders.
C1_Witness ==
    /\ scen = "iso"
    /\ call[1].graph = Path5
    /\ pc[1] = "returned" /\ pc[2] = "returned"
    /\ labels[1] # labels[2]
    /\ rounds[1] >= 1
    /\ sort_unstable(labels[1]) = sort_unstable(labels[2])

\* C2: for a directed graph the 1-WL invariant is the same for the graph and
\* for a relabelled copy whose edges were inserted in another order (what
\* the claim says of the separately sorted incoming and outgoing lists).
C2_DirectedPermutationInvariant ==
    (scen = "iso" /\ call[1].graph.directed
     /\ pc[1] = "done" /\ pc[2] = "done" /\ ~call[1].sub)
        => result[1] = result[2]

\* C3 as stated: a fixed-count run with a budget k in 1..S has applied
\* exactly k rounds when run() returns.
C3_AppliesBudgetRounds ==
    \A i \in Wrappers :
        (/\ pc[i] \in {"returned", "done"}
         /\ ~call[i].check_stable
         /\ call[i].niters >= 1
         /\ call[i].niters <= IndexSpace(call[i].graph, call[i].dim))
            => rounds[i] = call[i].niters

\* C3 amended: a fixed-count run with a budget k in 1..S has applied exactly
\* k - 1 rounds when run() returns, and the detector ended none of them.
C3_AppliesBudgetMinusOneRounds ==
    \A i \in Wrappers :
        (/\ pc[i] \in {"returned", "done"}
         /\ ~call[i].check_stable
         /\ call[i].niters >= 1
         /\ call[i].niters <= IndexSpace(call[i].graph, call[i].dim))
            => /\ rounds[i] = call[i].niters - 1
               /\ its[i] = call[i].niters

\* iter_2wl(path, 3) has returned after two rounds.
C3_Witness ==
    /\ scen = "iters"
    /\ call[2].graph = Path5
    /\ call[2].ep = "iter_2wl"
    /\ call[2].niters = 3
    /\ pc[2] = "done"
    /\ rounds[2] = 2

\* C4: on an undirected graph on which the auto-stop run applies r rounds,
\* the fixed-count run with the budget r + 1 ends with the same labels (and
\* the same histories), and returns the same invariant; on the path
\* 0-1-2-3-4 the auto-stop 1-WL run applies 1 round and the 2-WL run 2.
C4_AutoStopMatchesFixed ==
    (/\ scen = "iters"
     /\ ~call[1].graph.directed
     /\ call[1].check_stable
     /\ pc[1] \in {"returned", "done"}) =>
        /\ (pc[1] = "returned" /\ pc[2] = "returned"
            /\ call[2].niters = rounds[1] + 1)
              => /\ labels[1] = labels[2]
                 /\ subgraphs[1] = subgraphs[2]
        /\ (pc[1] = "done" /\ pc[2] = "done" /\ call[2].niters = rounds[1] + 1)
              => result[1] = result[2]
        /\ call[1].graph = Path5 => rounds[1] = IF call[1].dim = 1 THEN 1 ELSE 2

\* invariant_2wl(path) and iter_2wl(path, 3) have both returned.
C4_Witness ==
    /\ scen = "iters"
    /\ call[1].graph = Path5
    /\ call[1].ep = "invariant_2wl"
    /\ call[2].niters = 3
    /\ pc[1] = "done" /\ pc[2] = "done"
    /\ rounds[1] = 2
    /\ result[1] = result[2]

\* C5: when the detector ends an auto-stop run, the stabilising round is
\* not applied: the current buffer still holds the labels the round was
\* computed from, the next buffer holds the round's (stable) output, every
\* applied round was followed by one more loop pass, and the histories have
\* one entry per applied round after the initial one, the last of them the
\* current label.
C5_StabilisingRoundNotApplied ==
    \A i \in Wrappers :
        (pc[i] = "returned" /\ check_stable[i]) =>
            /\ stabilised(labels[i], new_labels[i])
            /\ new_labels[i] =
                   (IF dim[i] = 1
                    THEN calculate_new_labels(graph[i], labels[i], hashed,
                                              new_labels[i])
                    ELSE calculate_new_labels_2wl(graph[i], labels[i], hashed,
                                                  new_labels[i])).new_labels
            /\ its[i] = rounds[i] + 2
            /\ get_subgraphs[i] =>
                   \A v \in 1..graph[i].n :
                       /\ Len(subgraphs[i][v]) = rounds[i] + 1
                       /\ subgraphs[i][v][rounds[i] + 1] = labels[i][v]

\* neighbourhood_stable has returned after at least one applied round, the
\* buffers holding different labels.
C5_Witness ==
    /\ pc[1] = "returned"
    /\ check_stable[1]
    /\ get_subgraphs[1]
    /\ rounds[1] >= 1
    /\ graph[1].n >= 4
    /\ \A v \in 1..graph[1].n : new_labels[1][v] # labels[1][v]
    /\ \A v \in 1..graph[1].n : Len(subgraphs[1][v]) = rounds[1] + 1

\* C6: a history is only ever appended to; from the initial labelling on it
\* has one entry for the initial label and one per applied round, the last
\* entry being the node's current label (also after the return, the buffer
\* not being sorted); neighbourhood_hash(g, k) with k in 1..n returns
\* histories of k entries.
C6_HistoryAppendOnly ==
    /\ [](\A i \in Wrappers :
            (get_subgraphs[i] /\ pc[i] \notin {"call", "constructed", "abort"}) =>
                \A v \in 1..graph[i].n :
                    /\ Len(subgraphs[i][v]) = rounds[i] + 1
                    /\ subgraphs[i][v][rounds[i] + 1] = labels[i][v]
                    /\ (/\ pc[i] \in {"returned", "done"}
                        /\ ~call[i].check_stable
                        /\ call[i].niters >= 1
                        /\ call[i].niters <= graph[i].n)
                           => Len(subgraphs[i][v]) = call[i].niters)
    /\ [][\A i \in Wrappers :
            \A v \in DOMAIN subgraphs[i] :
                /\ v \in DOMAIN subgraphs'[i]
                /\ Len(subgraphs'[i][v]) \in
                       {Len(subgraphs[i][v]), Len(subgraphs[i][v]) + 1}
                /\ SubSeq(subgraphs'[i][v], 1, Len(subgraphs[i][v]))
                       = subgraphs[i][v]
                /\ Len(subgraphs'[i][v]) = Len(subgraphs[i][v]) + 1
                       => pc[i] \in {"constructed", "update"}]_vars

\* neighbourhood_hash(path, 3) has returned three entries per node.
C6_Witness ==
    /\ scen = "iters"
    /\ call[2].graph = Path5
    /\ call[2].ep = "neighbourhood_hash"
    /\ call[2].niters = 3
    /\ pc[2] = "done"
    /\ \A v \in 1..5 : Len(subgraphs[2][v]) = 3 /\ subgraphs[2][v][3] = labels[2][v]
    /\ subgraphs[2][3][3] # subgraphs[2][3][2]

\* C7: on a graph with at least one node, a requested budget of 0 or above
\* the index-space size S becomes S - 1 and any other budget is kept; the
\* budget 0 of a fixed-count entry point runs S - 2 rounds (none if S < 2)
\* whatever the detector would say, and the budgets 0, S - 1 and any budget
\* above S give the same labels, histories and invariant.
C7_BudgetClamped ==
    /\ \A i \in Wrappers :
           (pc[i] \notin {"call", "abort"} /\ call[i].graph.n >= 1) =>
               LET size == IndexSpace(call[i].graph, call[i].dim)
                   k == call[i].niters
               IN  /\ niters[i] = IF k = 0 \/ k > size THEN size - 1 ELSE k
                   /\ check_stable[i] = call[i].check_stable
                   /\ (/\ pc[i] \in {"returned", "done"}
                       /\ ~call[i].check_stable
                       /\ (k = 0 \/ k > size))
                          => rounds[i] = IF size >= 2 THEN size - 2 ELSE 0
    /\ (/\ scen = "iters"
        /\ call[1].graph.n >= 1
        /\ ~call[1].check_stable
        /\ LET size == IndexSpace(call[2].graph, call[2].dim)
               k == call[2].niters
           IN  k = 0 \/ k > size \/ (size >= 2 /\ k = size - 1)) =>
           /\ (pc[1] = "returned" /\ pc[2] = "returned")
                 => /\ labels[1] = labels[2]
                    /\ subgraphs[1] = subgraphs[2]
                    /\ rounds[1] = rounds[2]
           /\ (pc[1] = "done" /\ pc[2] = "done") => result[1] = result[2]

\* invariant_iters(star, 0) and invariant_iters(star, MAX) have both run two
\* rounds on a colouring that was stable from the start.
C7_Witness ==
    /\ scen = "iters"
    /\ call[1].graph = Star4
    /\ call[1].ep = "invariant_iters"
    /\ call[2].niters = UsizeMax
    /\ pc[1] = "done" /\ pc[2] = "done"
    /\ niters[2] = 3
    /\ rounds[1] = 2 /\ rounds[2] = 2
    /\ result[1] = result[2]

\* C8: a graph with zero nodes is valid input of every entry point: no call
\* on it aborts, and a returned invariant is the hash of the empty sequence.
C8_ZeroNodeGraphAccepted ==
    \A i \in Wrappers :
        call[i].graph.n = 0 =>
            /\ pc[i] # "abort"
            /\ (pc[i] = "done" /\ ~call[i].sub)
                   => result[i] = XxHash64_oneshot(hashed, Seed, <<>>).h

\* C9: new_2wl called with history recording or with a directed graph
\* (iter_2wl accepts one) panics before a label buffer is allocated, the
\* history check coming first; nothing runs and nothing is returned.
C9_UnsupportedRejected ==
    \A i \in Wrappers :
        (/\ call[i].dim = 2
         /\ (call[i].sub \/ call[i].graph.directed)
         /\ pc[i] # "call") =>
            /\ pc[i] = "abort"
            /\ ~allocated[i]
            /\ err[i] = IF call[i].sub
                        THEN "Subgraph hashing is not supported for 2-dimensional WL"
                        ELSE "Directed graphs are not yet supported for 2-dimensional WL"
            /\ labels[i] = <<>> /\ new_labels[i] = <<>>
            /\ its[i] = 0 /\ rounds[i] = 0 /\ result[i] = 0

\* new_2wl with history recording on a directed graph with an edge, then
\* iter_2wl on that graph, have both panicked, with the two messages.
C9_Witness ==
    /\ scen = "ctor"
    /\ call[1].dim = 2 /\ call[1].sub /\ call[1].graph.directed
    /\ Len(call[1].graph.edges) >= 1
    /\ pc[1] = "abort" /\ pc[2] = "abort"
    /\ err[1] = "Subgraph hashing is not supported for 2-dimensional WL"
    /\ err[2] = "Directed graphs are not yet supported for 2-dimensional WL"
    /\ ~allocated[1] /\ ~allocated[2]

\* C10: for n >= 1 nodes new_2wl either panics before the buffers exist or
\* allocates exactly n(n+1)/2 labels, no term of number_tuples and of
\* get_label_index having wrapped, and every pair's index is below
\* number_tuples.
C10_NumberTuplesExact ==
    \A i \in Wrappers :
        (/\ call[i].dim = 2
         /\ call[i].graph.n >= 1
         /\ ~call[i].sub /\ ~call[i].graph.directed
         /\ pc[i] # "call") =>
            LET n == call[i].graph.n
            IN  \/ /\ pc[i] = "abort"
                   /\ ~allocated[i]
                   /\ labels[i] = <<>> /\ new_labels[i] = <<>>
                \/ /\ pc[i] # "abort"
                   /\ Len(new_labels[i]) = (n * (n + 1)) \div 2
                   /\ (n - 1) * (n - 1) + n <= UsizeMax
                   /\ \A a, b \in 0..(n - 1) :
                          LET l == IF b > a THEN b ELSE a
                              r == IF b > a THEN a ELSE b
                          IN  /\ l * l + l <= UsizeMax
                              /\ get_label_index(a, b) = (l * l + l) \div 2 + r
                              /\ get_label_index(a, b) < Len(new_labels[i])

\* invariant_2wl has returned on the largest graph whose buffers fit.
C10_Witness ==
    /\ scen = "size"
    /\ call[1].graph.n >= 2
    /\ capacity_overflow(PairCount(call[1].graph.n + 1))
    /\ pc[1] = "done"
    /\ Len(labels[1]) = PairCount(call[1].graph.n)

\* C11: the two disjoint triangles and the 6-cycle get equal 1-WL
\* invariants and different 2-WL invariants.
C11_TwoWLMoreExpressive ==
    (scen = "pairs" /\ pc[1] = "done" /\ pc[2] = "done") =>
        /\ call = <<invariant(TwoTriangles), invariant(Cycle6)>>
              => result[1] = result[2]
        /\ call = <<invariant_2wl(TwoTriangles), invariant_2wl(Cycle6)>>
              => result[1] # result[2]

\* Both 2-WL invariants of the pair have been returned, each after at least
\* one applied round.
C11_Witness ==
    /\ call = <<invariant_2wl(TwoTriangles), invariant_2wl(Cycle6)>>
    /\ pc[1] = "done" /\ pc[2] = "done"
    /\ rounds[1] >= 1 /\ rounds[2] >= 1
    /\ result[1] # result[2]

\* C12: two fixed-count runs on the same graph with budgets
\* 1 <= k1 < k2 <= S return different invariants (invariant_iters,
\* iter_2wl) and end with different label multisets, whether or not the
\* partition was stable before k1 rounds; so do the budgets 2 and 3 on the
\* star with centre 0.
C12_BudgetsGiveDifferentInvariants ==
    scen = "budgets" =>
        /\ (pc[1] = "done" /\ pc[2] = "done" /\ ~call[1].sub)
              => result[1] # result[2]
        /\ (pc[1] = "returned" /\ pc[2] = "returned")
              => /\ sort_unstable(labels[1]) # sort_unstable(labels[2])
                 /\ \A a \in 1..Len(labels[1]), b \in 1..Len(labels[2]) :
                        labels[1][a] # labels[2][b]

\* invariant_iters(star, 2) and invariant_iters(star, 3) have returned
\* different invariants, the star's partition being stable from the start.
C12_Witness ==
    /\ call = <<invariant_iters(Star4, 2), invariant_iters(Star4, 3)>>
    /\ scen = "budgets"
    /\ pc[1] = "done" /\ pc[2] = "done"
    /\ rounds[1] = 1 /\ rounds[2] = 2
    /\ result[1] # result[2]

\* C13: the 1-WL auto-stop invariants (a) of the undirected edge (0,1) and
\* of the directed edge 0->1 differ, (b) of the directed path 0->1->2->3->4
\* and of its full reversal are equal, (c) of that path and of the partly
\* reversed graph 1->0, 2->1, 2->3, 4->3 differ.
C13_DirectedSensitivity ==
    (scen = "pairs" /\ pc[1] = "done" /\ pc[2] = "done") =>
        /\ call = <<invariant(UnEdge), invariant(DiEdge)>>
              => result[1] # result[2]
        /\ call = <<invariant(DiPath5), invariant(DiPath5Reversed)>>
              => result[1] = result[2]
        /\ call = <<invariant(DiPath5Shuffled), invariant(DiPath5Reversed)>>
              => result[1] = result[2]
        /\ call = <<invariant(DiPath5), invariant(DiPath5FlippedMiddle)>>
              => result[1] # result[2]

\* The invariants of the directed path and of its reversal have been
\* returned, each after at least one applied round.
C13_Witness ==
    /\ call = <<invariant(DiPath5), invariant(DiPath5Reversed)>>
    /\ pc[1] = "done" /\ pc[2] = "done"
    /\ rounds[1] >= 1 /\ rounds[2] >= 1
    /\ result[1] = result[2]

Shuffles(len) ==
    {p \in [1..len -> 1..len] : \A a, b \in 1..len : p[a] = p[b] => a = b}

\* C15: on two buffers of equal length stabilised() returns true exactly
\* when old[i] = old[j] implies new[i] = new[j] for all i, j; it returns the
\* same on the buffers visited in any other order; an auto-stop run breaks
\* exactly when that holds of its two buffers; and a call, direct or from
\* run(), changes neither buffer nor the history.
C15_DetectorExact ==
    /\ []((probe.fn = "stabilised" /\ probe.called) =>
            /\ probe.v = (\A i, j \in 1..Len(probe.old) :
                              probe.old[i] = probe.old[j]
                                  => probe.new_[i] = probe.new_[j])
            /\ \A p \in Shuffles(Len(probe.old)) :
                   stabilised([k \in 1..Len(probe.old) |-> probe.old[p[k]]],
                              [k \in 1..Len(probe.old) |-> probe.new_[p[k]]])
                       = probe.v)
    /\ [](\A i \in Wrappers :
            (check_stable[i] /\ pc[i] \in {"update", "returned"}) =>
                (pc[i] = "returned")
                    = (\A a, b \in 1..Len(labels[i]) :
                           labels[i][a] = labels[i][b]
                               => new_labels[i][a] = new_labels[i][b]))
    /\ [][/\ probe.fn = "stabilised"
             => probe'.old = probe.old /\ probe'.new_ = probe.new_
          /\ \A i \in Wrappers :
                pc[i] = "check" =>
                    /\ labels'[i] = labels[i]
                    /\ new_labels'[i] = new_labels[i]
                    /\ subgraphs'[i] = subgraphs[i]]_vars

\* stabilised() has returned false on buffers whose first contradiction is
\* between the first and the last index.
C15_Witness ==
    /\ probe.fn = "stabilised"
    /\ probe.called
    /\ probe.old = <<1, 0, 1>>
    /\ probe.new_ = <<2, 2, 0>>
    /\ probe.v = FALSE

\* C16: on a graph with at least one node every run() that starts returns;
\* an auto-stop run returns on a stable colouring after at most S
\* executions of the Round Updater, S - 1 of them applied; a fixed-count run
\* returns when its counter has reached the clamped budget, not before,
\* whatever the detector would say; and no call aborts.
C16_RunsTerminate ==
    /\ \A i \in Wrappers :
           (pc[i] = "constructed" /\ graph[i].n >= 1) ~> (pc[i] = "returned")
    /\ [](\A i \in Wrappers :
            (call[i].graph.n >= 1 /\ pc[i] # "call") =>
                LET size == IndexSpace(call[i].graph, call[i].dim)
                IN  /\ pc[i] # "abort"
                    /\ check_stable[i] =>
                         /\ rounds[i] <= size - 1
                         /\ its[i] <= size + 1
                         /\ pc[i] = "returned"
                               => /\ stabilised(labels[i], new_labels[i])
                                  /\ its[i] = rounds[i] + 2
                    /\ (~check_stable[i] /\ pc[i] \notin {"constructed"}) =>
                         /\ its[i] <= (IF niters[i] >= 1 THEN niters[i] ELSE 1)
                         /\ rounds[i] <= its[i] - 1
                         /\ pc[i] \in {"returned", "done"}
                               => /\ its[i] = (IF niters[i] >= 1 THEN niters[i] ELSE 1)
                                  /\ rounds[i] = its[i] - 1)

\* An auto-stop 2-WL run on the path has returned after two applied rounds
\* and the fixed-count run with the budget 15 after fourteen.
C16_Witness ==
    /\ scen = "iters"
    /\ call[1] = invariant_2wl(Path5)
    /\ call[2].niters = 15
    /\ pc[1] = "returned" /\ pc[2] = "returned"
    /\ rounds[1] = 2
    /\ rounds[2] = 14

\* What the Round Updater hashes for the index k (1-based) of wrapper i,
\* read from the buffer lab.
RoundInput(i, lab, k) ==
    IF dim[i] = 2
    THEN PairInput(graph[i], lab, PairAt(k - 1)[1], PairAt(k - 1)[2])
    ELSE IF ~is_directed(graph[i])
    THEN UndirectedInput(graph[i], lab, k - 1)
    ELSE NodeHashInput(
             <<XxHash64_oneshot(hashed', Seed, IncomingInput(graph[i], lab, k - 1)).h,
               XxHash64_oneshot(hashed', Seed, OutgoingInput(graph[i], lab, k - 1)).h>>,
             lab[k])

\* C17: one execution of the Round Updater leaves the current buffer and
\* the history unchanged and writes every index of the next buffer, each
\* with the hash of what that index reads from the current buffer alone
\* (so in whatever order the indices are processed), no entry keeping or
\* repeating a value the next buffer held before; in 2-WL every index is
\* the target of exactly one pair of the loops.
C17_RoundIsolation ==
    [][\A i \in Wrappers :
          pc[i] = "body" =>
              /\ labels'[i] = labels[i]
              /\ subgraphs'[i] = subgraphs[i]
              /\ Len(new_labels'[i]) = Len(labels[i])
              /\ \A k \in 1..Len(new_labels'[i]) :
                     /\ new_labels'[i][k]
                            = XxHash64_oneshot(hashed', Seed,
                                               RoundInput(i, labels[i], k)).h
                     /\ \A j \in 1..Len(new_labels[i]) :
                            new_labels'[i][k] # new_labels[i][j]
                     /\ dim[i] = 2 =>
                            Cardinality(
                                {pos \in 1..PairCount(graph[i].n) :
                                    get_label_index(PairAt(pos - 1)[1],
                                                    PairAt(pos - 1)[2]) + 1 = k}) = 1
      ]_vars

\* The third round of a run with recorded history has been computed: the
\* next buffer, which held the labels of the first round, holds new ones.
C17_Witness ==
    /\ pc[1] = "check"
    /\ get_subgraphs[1]
    /\ rounds[1] = 2
    /\ graph[1].n >= 4
    /\ \A k \in 1..graph[1].n :
           /\ new_labels[1][k] # subgraphs[1][k][2]
           /\ labels[1][k] = subgraphs[1][k][3]

\* C18: on an undirected graph with n >= 1 nodes the 2-WL constructor
\* leaves an empty current buffer and a next buffer of n(n+1)/2 entries;
\* after the initial labelling the current buffer has n(n+1)/2 entries, the
\* one at get_label_index(i, j) being the number of edges between i and j
\* (parallel edges counted, a self-loop once); from then on both buffers
\* keep that length.
C18_TwoWLLayout ==
    \A i \in Wrappers :
        (dim[i] = 2 /\ graph[i].n >= 1 /\ pc[i] \notin {"call", "abort"}) =>
            LET n == graph[i].n
                edges == graph[i].edges
            IN  /\ Len(new_labels[i]) = (n * (n + 1)) \div 2
                /\ Len(labels[i]) = IF pc[i] = "constructed" THEN 0
                                    ELSE (n * (n + 1)) \div 2
                /\ (rounds[i] = 0 /\ pc[i] \notin {"constructed", "done"}) =>
                       \A a \in 0..(n - 1) : \A b \in 0..a :
                           labels[i][get_label_index(a, b) + 1]
                               = Cardinality({e \in 1..Len(edges) :
                                                 {edges[e][1], edges[e][2]} = {a, b}})

\* The initial labelling of a 2-WL run on a graph with a doubled edge 0-1
\* and no self-loop at 1 is in place.
C18_Witness ==
    /\ dim[1] = 2
    /\ pc[1] = "while"
    /\ rounds[1] = 0
    /\ graph[1].n = 2
    /\ labels[1] = <<0, 2, 0>>

\* The labels a buffer holds.
Colours(buf) == {buf[k] : k \in 1..Len(buf)}

\* C19: after every execution of the Round Updater (1-WL undirected and
\* directed, 2-WL) two indices with equal next labels have equal current
\* labels, so the next buffer has at least as many distinct labels as the
\* current one, and more in every round an auto-stop run goes on to apply;
\* stabilised() holds exactly when both buffers induce the same partition.
C19_RefinementMonotone ==
    \A i \in Wrappers :
        pc[i] \in {"check", "update"} =>
            /\ \A a, b \in 1..Len(labels[i]) :
                   new_labels[i][a] = new_labels[i][b] => labels[i][a] = labels[i][b]
            /\ Cardinality(Colours(new_labels[i])) >= Cardinality(Colours(labels[i]))
            /\ (pc[i] = "update" /\ check_stable[i]) =>
                   Cardinality(Colours(new_labels[i]))
                       > Cardinality(Colours(labels[i]))
            /\ stabilised(labels[i], new_labels[i])
                   = (\A a, b \in 1..Len(labels[i]) :
                          (labels[i][a] = labels[i][b])
                              = (new_labels[i][a] = new_labels[i][b]))

\* The second round of an auto-stop 2-WL run on the path is about to be
\* applied: it splits a class of the first round's partition.
C19_Witness ==
    /\ call[1] = invariant_2wl(Path5)
    /\ pc[1] = "update"
    /\ rounds[1] = 1
    /\ Cardinality(Colours(new_labels[1])) > Cardinality(Colours(labels[1]))
    /\ \E a, b \in 1..Len(labels[1]) :
           labels[1][a] = labels[1][b] /\ new_labels[1][a] # new_labels[1][b]

====
